---- MODULE Spec2Model ----
(***************************************************************************)
(* Request handling of the DXR web application (dxr/app.py): the /search   *)
(* dispatcher with its JSON and HTML searchers, the browse and parallel    *)
(* controllers, the path resolver and the Accept-header negotiation.       *)
(***************************************************************************)
EXTENDS Integers, Sequences, FiniteSets, TLC

VARIABLES disk, pc, req, loc, calls, resp

vars == <<disk, pc, req, loc, calls, resp>>

(***************************************************************************)
(* Bounds of the model.                                                    *)
(***************************************************************************)
\* Longest Accept header (number of media ranges) drawn for the negotiator.
MaxAccept == 2
\* Number of hits the index holds for the well-formed query.
MaxHits == 3

(***************************************************************************)
(* Configuration (current_app.config) and the instance folder.             *)
(***************************************************************************)
WWW_ROOT == "/dxr"
INSTANCE_PATH == "/inst"
\* config['TREES']: the tree registry.
TREES == {"code"}
\* config['ES_ALIASES']: tree name -> index alias; a missing key is a KeyError.
ES_ALIASES == [t \in TREES |-> "dxr_" \o t]
\* Tree names a URL can carry: the registered one and an unregistered one.
TreeNames == TREES \cup {"ghost"}

(***************************************************************************)
(* Raw request parameters: request.values.get(name) is None or a string.   *)
(* A string whose characters matter (offset, limit) is a sequence of       *)
(* one-character strings.                                                  *)
(***************************************************************************)
None == [present |-> FALSE, text |-> ""]
NoneNum == [present |-> FALSE, text |-> <<>>]
Str(s) == [present |-> TRUE, text |-> s]

QRaw == {None, Str("foo"), Str("re:[")}
OffsetRaw == {NoneNum, Str(<<"1">>), Str(<<"-", "1">>)}
LimitRaw ==
    {NoneNum, Str(<<>>), Str(<<"a", "b", "c">>), Str(<<"-", "5">>),
     Str(<<"0">>), Str(<<"2">>), Str(<<"1", "0", "0", "0">>),
     Str(<<"5", "0", "0", "0">>)}
CaseRaw == {None, Str("true"), Str("True")}
RedirectRaw == {None, Str("true"), Str("false")}

Digits == {"0", "1", "2", "3", "4", "5", "6", "7", "8", "9"}
DigitVal(c) ==
    CASE c = "0" -> 0 [] c = "1" -> 1 [] c = "2" -> 2 [] c = "3" -> 3
      [] c = "4" -> 4 [] c = "5" -> 5 [] c = "6" -> 6 [] c = "7" -> 7
      [] c = "8" -> 8 [] c = "9" -> 9

RECURSIVE DigitsVal(_, _)
\* Value of a non-empty digit sequence, most significant digit first.
DigitsVal(s, acc) ==
    IF s = <<>> THEN acc ELSE DigitsVal(Tail(s), acc * 10 + DigitVal(Head(s)))

AllDigits(s) == s # <<>> /\ \A i \in 1..Len(s) : s[i] \in Digits

\* Python's int(s) on a parameter: [ok |-> FALSE] stands for the TypeError
\* (None) or ValueError (not an optionally signed run of digits) it raises.
PyInt(p) ==
    IF ~p.present THEN [ok |-> FALSE, val |-> 0]
    ELSE IF p.text # <<>> /\ Head(p.text) \in {"-", "+"}
         THEN IF AllDigits(Tail(p.text))
              THEN [ok |-> TRUE,
                    val |-> IF Head(p.text) = "-"
                            THEN 0 - DigitsVal(Tail(p.text), 0)
                            ELSE DigitsVal(Tail(p.text), 0)]
              ELSE [ok |-> FALSE, val |-> 0]
         ELSE IF AllDigits(p.text)
              THEN [ok |-> TRUE, val |-> DigitsVal(p.text, 0)]
              ELSE [ok |-> FALSE, val |-> 0]

\* dxr.utils.non_negative_int(s, default): s parsed as an integer >= 0, the
\* default when it cannot be parsed as one.
non_negative_int(p, default) ==
    IF PyInt(p).ok /\ PyInt(p).val >= 0 THEN PyInt(p).val ELSE default

Min(a, b) == IF a < b THEN a ELSE b
Max(a, b) == IF a > b THEN a ELSE b

\* search, line 73: req.get('q', '').
QueryText(p) == IF p.present THEN p.text ELSE ""

\* search, line 74.
NormOffset(p) == non_negative_int(p, 0)

\* The limit without its cap.
NormLimitUncapped(p) == non_negative_int(p, 100)

\* search, line 75.
NormLimit(p) == Min(non_negative_int(p, 100), 1000)

\* search, line 76, and _search_html, line 114: == 'true'.
IsTrue(p) == p.present /\ p.text = "true"

(***************************************************************************)
(* Content negotiation: request.accept_mimetypes (a werkzeug MIMEAccept)   *)
(* as _request_wants_json uses it.  A header is a sequence of media ranges *)
(* [type, subtype, q], q in tenths.                                        *)
(***************************************************************************)
JSON_MIME == [type |-> "application", subtype |-> "json"]
HTML_MIME == [type |-> "text", subtype |-> "html"]
NoMatch == [type |-> "", subtype |-> ""]

Range(t, s, q) == [type |-> t, subtype |-> s, q |-> q]
Qs == {0, 8, 10}
MediaRanges ==
    {Range(m[1], m[2], q) :
        m \in {<<"application", "json">>, <<"text", "html">>,
               <<"text", "*">>, <<"*", "*">>},
        q \in Qs}
AllAccepts == UNION {[1..n -> MediaRanges] : n \in 0..MaxAccept}

\* The headers the modelled /search clients send: none, JSON only, a
\* wildcard, both types at equal weight, each type preferred over the other.
Accepts ==
    {<<>>,
     <<Range("application", "json", 10)>>,
     <<Range("*", "*", 10)>>,
     <<Range("application", "json", 8), Range("text", "html", 8)>>,
     <<Range("text", "html", 10), Range("application", "json", 8)>>,
     <<Range("application", "json", 10), Range("text", "html", 8)>>}

\* Order of the media-range strings, as Python compares them.
ValueRank(r) ==
    CASE r.type = "*" -> 0
      [] r.type = "application" -> 1
      [] r.type = "text" /\ r.subtype = "*" -> 2
      [] OTHER -> 3

\* Accept.__init__ keeps the ranges sorted by (quality, value), descending.
Before(a, b) == a.q > b.q \/ (a.q = b.q /\ ValueRank(a) > ValueRank(b))

RECURSIVE Insert(_, _)
Insert(x, s) ==
    IF s = <<>> THEN <<x>>
    ELSE IF Before(Head(s), x) THEN <<Head(s)>> \o Insert(x, Tail(s))
    ELSE <<x>> \o s

RECURSIVE SortedAccept(_)
SortedAccept(h) ==
    IF h = <<>> THEN <<>> ELSE Insert(Head(h), SortedAccept(Tail(h)))

\* MIMEAccept._value_matches(value, item): value is the server's type.
ValueMatches(value, item) ==
    /\ ~(item.type = "*" /\ item.subtype # "*")
    /\ \/ item.type = "*" /\ item.subtype = "*"
       \/ value.type = "*" /\ value.subtype = "*"
       \/ /\ item.type = value.type
          /\ \/ item.subtype = "*"
             \/ value.subtype = "*"
             \/ item.subtype = value.subtype

RECURSIVE Quality(_, _)
\* Accept.quality(key), which accept_mimetypes[key] returns: the quality of
\* the first range of the sorted list that matches, 0 without one.
Quality(key, items) ==
    IF items = <<>> THEN 0
    ELSE IF ValueMatches(key, Head(items)) THEN Head(items).q
    ELSE Quality(key, Tail(items))

RECURSIVE ScanClient(_, _, _)
\* Inner loop of Accept.best_match for one server type: stops at the first
\* range whose quality does not beat the best so far.
ScanClient(server, items, best) ==
    IF items = <<>> THEN best
    ELSE IF Head(items).q <= best.q THEN best
    ELSE IF ValueMatches(server, Head(items)) /\ Head(items).q > 0
         THEN ScanClient(server, Tail(items),
                         [q |-> Head(items).q, result |-> server])
         ELSE ScanClient(server, Tail(items), best)

RECURSIVE BestMatchFrom(_, _, _)
BestMatchFrom(matches, items, best) ==
    IF matches = <<>> THEN best.result
    ELSE BestMatchFrom(Tail(matches), items,
                       ScanClient(Head(matches), items, best))

\* Accept.best_match(matches): NoMatch stands for the default, None.
best_match(matches, h) ==
    BestMatchFrom(matches, SortedAccept(h), [q |-> 0 - 1, result |-> NoMatch])

\* The comparison with >= in place of >.
WantsJsonNotStrict(h) ==
    LET best == best_match(<<JSON_MIME, HTML_MIME>>, h)
    IN  /\ best = JSON_MIME
        /\ Quality(best, SortedAccept(h)) >= Quality(HTML_MIME, SortedAccept(h))

\* _request_wants_json.
request_wants_json(h) ==
    LET best == best_match(<<JSON_MIME, HTML_MIME>>, h)
    IN  /\ best = JSON_MIME
        /\ Quality(best, SortedAccept(h)) > Quality(HTML_MIME, SortedAccept(h))

(***************************************************************************)
(* The artifact store: the instance folder on disk.                        *)
(***************************************************************************)
\* os.path.join of a folder and a relative path.
Join(a, b) == a \o "/" \o b

\* _tree_folder.
tree_folder(tree) == Join(Join(INSTANCE_PATH, "trees"), tree)

\* URL paths a request can browse to, rooted just inside the tree.
UrlPaths == {"", "docs", "a.c", "nope"}

\* What lies inside one tree folder that exists: the folder itself, maybe
\* a docs directory, maybe the prerendered docs.html and a.c.html.
KindIn(k, docsDir, docsHtml, fileHtml) ==
    CASE k = "" -> "dir"
      [] k = "docs" -> IF docsDir THEN "dir" ELSE "absent"
      [] k = "docs.html" -> IF docsHtml THEN "file" ELSE "absent"
      [] k = "a.c.html" -> IF fileHtml THEN "file" ELSE "absent"
      [] OTHER -> "absent"

DiskKeys == UrlPaths \cup {p \o ".html" : p \in UrlPaths}
DiskPaths == {Join(tree_folder(t), k) : t \in TreeNames, k \in DiskKeys}

Layout(onDisk, docsDir, docsHtml, fileHtml) ==
    [p \in DiskPaths |->
        LET t == CHOOSE t \in TreeNames :
                     \E k \in DiskKeys : p = Join(tree_folder(t), k)
            k == CHOOSE k \in DiskKeys : p = Join(tree_folder(t), k)
        IN  IF t \in onDisk THEN KindIn(k, docsDir, docsHtml, fileHtml)
            ELSE "absent"]

Disks ==
    {Layout(o, d, h, f) :
        o \in SUBSET TreeNames, d \in BOOLEAN, h \in BOOLEAN, f \in BOOLEAN}

isdir(p) == p \in DOMAIN disk /\ disk[p] = "dir"
isfile(p) == p \in DOMAIN disk /\ disk[p] = "file"

\* The resolver appending a fixed suffix to directories too.
HtmlFilePathNoDirCheck(folder, url_path) ==
    [raised |-> FALSE, path |-> url_path \o ".html"]

\* _html_file_path: NotFound for a directory, else the path plus '.html'.
html_file_path(folder, url_path) ==
    IF isdir(Join(folder, url_path))
    THEN [raised |-> TRUE, path |-> ""]
    ELSE [raised |-> FALSE, path |-> url_path \o ".html"]

(***************************************************************************)
(* The index behind dxr.query.Query and current_app.es.search.             *)
(***************************************************************************)
\* A query text the index rejects with BadTerm.
BadQueries == {"re:["}
BadTermReason == "bad term"

\* One result of the index: (icon, path, lines), lines a sequence of
\* (line number, line text).
Hit(i) == <<"c", "src/f" \o ToString(i) \o ".c", <<<<i, "line " \o ToString(i)>>>>>>

\* The ordered hits of a well-formed query: all of them when the case is
\* ignored, all but the last when it is not.
Hits(q, cs) ==
    LET n == IF cs THEN MaxHits - 1 ELSE MaxHits
    IN  [i \in 1..n |-> Hit(i)]

\* Query.results(offset, limit): BadTerm, or the page of the hits.
QueryResults(q, cs, offset, limit) ==
    IF q \in BadQueries THEN [bad |-> TRUE, page |-> <<>>]
    ELSE [bad |-> FALSE,
          page |-> SubSeq(Hits(q, cs), offset + 1,
                          Min(Len(Hits(q, cs)), offset + limit))]

\* Query.direct_result(): None, one (path, line), or BadTerm on a bad term.
NoDirect == [kind |-> "none", path |-> "", line |-> 0]
DirectOutcomes(q) ==
    {NoDirect}
    \cup (IF q \in BadQueries
          THEN {[kind |-> "bad", path |-> "", line |-> 0]}
          ELSE {[kind |-> "pair", path |-> "a.c", line |-> 7]})

\* What the folder query of browse can return: the _source of each hit.
Listings ==
    {<<>>,
     <<[name |-> "sub", is_folder |-> TRUE, path |-> "docs/sub"]>>,
     <<[name |-> "sub", is_folder |-> TRUE, path |-> "docs/sub"],
       [name |-> "x.c", is_folder |-> FALSE, path |-> "docs/x.c"]>>}

(***************************************************************************)
(* Requests.  Each request r has a position pc[r], its raw request req[r], *)
(* the handler's locals loc[r], the log calls[r] of the calls it made to   *)
(* the index and the artifact store, and its response resp[r].             *)
(***************************************************************************)
Reqs == DOMAIN pc

NoReq ==
    [route |-> "", tree |-> "", path |-> "", q |-> None, offset |-> NoneNum,
     limit |-> NoneNum, case |-> None, redirect |-> None, accept |-> <<>>]
NoLoc ==
    [query_text |-> "", offset |-> 0, limit |-> 0, is_case_sensitive |-> FALSE,
     wants_json |-> FALSE]
NoResp ==
    [status |-> 0, kind |-> "", location |-> "", error |-> "", results |-> <<>>]

\* One logged call: the operation, the index alias, the arguments (arg is the
\* folder or file name of a listing or a file send) and what came back.
Call(op, index, q, cs, offset, limit, arg, out) ==
    [op |-> op, index |-> index, q |-> q, cs |-> cs, offset |-> offset,
     limit |-> limit, arg |-> arg, out |-> out]

IndexOps == {"direct_result", "results", "listing"}
IndexCalls(r) == SelectSeq(calls[r], LAMBDA c : c.op \in IndexOps)
CallsOf(r, op) == SelectSeq(calls[r], LAMBDA c : c.op = op)

Respond(r, status, kind, location, error, results) ==
    /\ resp' = [resp EXCEPT ![r] =
                   [status |-> status, kind |-> kind, location |-> location,
                    error |-> error, results |-> results]]
    /\ pc' = [pc EXCEPT ![r] = "done"]

\* A request arrives on /<tree>/search.
ReceiveSearch(r) ==
    /\ pc[r] = "idle"
    /\ \E t \in TreeNames, q \in QRaw, o \in OffsetRaw, l \in LimitRaw,
          c \in CaseRaw, rd \in RedirectRaw, a \in Accepts :
          req' = [req EXCEPT ![r] =
                     [route |-> "search", tree |-> t, path |-> "", q |-> q,
                      offset |-> o, limit |-> l, case |-> c, redirect |-> rd,
                      accept |-> a]]
    /\ pc' = [pc EXCEPT ![r] = "search"]
    /\ UNCHANGED <<disk, loc, calls, resp>>

\* A request arrives on /<tree>/source/<path>.
ReceiveBrowse(r) ==
    /\ pc[r] = "idle"
    /\ \E t \in TreeNames, p \in UrlPaths :
          req' = [req EXCEPT ![r] =
                     [NoReq EXCEPT !.route = "browse", !.tree = t, !.path = p]]
    /\ pc' = [pc EXCEPT ![r] = "browse"]
    /\ UNCHANGED <<disk, loc, calls, resp>>

\* A request arrives on /<tree>/parallel/<path>.
ReceiveParallel(r) ==
    /\ pc[r] = "idle"
    /\ \E t \in TreeNames, p \in UrlPaths :
          req' = [req EXCEPT ![r] =
                     [NoReq EXCEPT !.route = "parallel", !.tree = t, !.path = p]]
    /\ pc' = [pc EXCEPT ![r] = "parallel"]
    /\ UNCHANGED <<disk, loc, calls, resp>>

\* search, line 85: the searcher the dispatcher fires.
Searcher(accept) == IF request_wants_json(accept) THEN "json" ELSE "html"

\* search: tree lookup, normalisation of the parameters, dispatch.
Search(r) ==
    /\ pc[r] = "search"
    /\ IF req[r].tree \notin TREES
       THEN /\ Respond(r, 404, "NotFound", "",
                       "No such tree as " \o req[r].tree, <<>>)
            /\ UNCHANGED <<disk, req, loc, calls>>
       ELSE /\ loc' = [loc EXCEPT ![r] =
                          [query_text |-> QueryText(req[r].q),
                           offset |-> NormOffset(req[r].offset),
                           limit |-> NormLimit(req[r].limit),
                           is_case_sensitive |-> IsTrue(req[r].case),
                           wants_json |-> Searcher(req[r].accept) = "json"]]
            /\ pc' = [pc EXCEPT ![r] = Searcher(req[r].accept)]
            /\ UNCHANGED <<disk, req, calls, resp>>

\* _search_json, lines 93-96: the dicts built from the result tuples.
ShapeJson(page) ==
    [i \in 1..Len(page) |->
        [icon |-> page[i][1],
         path |-> page[i][2],
         lines |-> [j \in 1..Len(page[i][3]) |->
                       [line_number |-> page[i][3][j][1],
                        line |-> page[i][3][j][2]]]]]

\* A results call that drops the offset.
ResultsCallNoOffset(index, l) ==
    Call("results", index, l.query_text, l.is_case_sensitive, 0, l.limit, "",
         "")

\* _search_json, line 96: query.results(offset, limit).
ResultsCallJson(index, l) ==
    Call("results", index, l.query_text, l.is_case_sensitive, l.offset,
         l.limit, "", "")

\* _search_html, line 147: query.results(offset, limit).
ResultsCallHtml(index, l) ==
    Call("results", index, l.query_text, l.is_case_sensitive, l.offset,
         l.limit, "", "")

ResultsOf(c) == QueryResults(c.q, c.cs, c.offset, c.limit)
Logged(c) == [c EXCEPT !.out = IF ResultsOf(c).bad THEN "bad" ELSE "ok"]

\* _search_json, line 98, and _search_html, line 151.
BadTermStatus == 400

\* _search_json: a normal search, answered as JSON.
SearchJson(r) ==
    /\ pc[r] = "json"
    /\ LET c == ResultsCallJson(ES_ALIASES[req[r].tree], loc[r])
           out == ResultsOf(c)
       IN  /\ calls' = [calls EXCEPT ![r] = Append(@, Logged(c))]
           /\ IF out.bad
              THEN Respond(r, BadTermStatus, "json", "", BadTermReason, <<>>)
              ELSE Respond(r, 200, "json", "", "", ShapeJson(out.page))
    /\ UNCHANGED <<disk, req, loc>>

\* A redirect flag that is always on.
ShouldRedirectAlways(p) == TRUE

\* _search_html, line 114.
ShouldRedirect(p) == IsTrue(p)

\* A redirect that forgets the case flag.
DirectLocationNoCase(tree, path, query_text, is_case_sensitive, line) ==
    WWW_ROOT \o "/" \o tree \o "/source/" \o path \o "?from=" \o query_text
    \o "#" \o ToString(line)

\* _search_html, lines 123-129: the redirect to the direct result.
DirectLocation(tree, path, query_text, is_case_sensitive, line) ==
    WWW_ROOT \o "/" \o tree \o "/source/" \o path \o "?from=" \o query_text
    \o (IF is_case_sensitive THEN "&case=true" ELSE "")
    \o "#" \o ToString(line)

\* _search_html, lines 114-129: the direct search.  A BadTerm raised by
\* direct_result is caught by nothing and leaves the handler.
SearchHtmlDirect(r) ==
    /\ pc[r] = "html"
    /\ IF ShouldRedirect(req[r].redirect)
       THEN \E result \in DirectOutcomes(loc[r].query_text) :
               /\ calls' = [calls EXCEPT ![r] =
                               Append(@, Call("direct_result",
                                              ES_ALIASES[req[r].tree],
                                              loc[r].query_text,
                                              loc[r].is_case_sensitive,
                                              0, 0, "", result.kind))]
               /\ CASE result.kind = "pair" ->
                         Respond(r, 302, "redirect",
                                 DirectLocation(req[r].tree, result.path,
                                                loc[r].query_text,
                                                loc[r].is_case_sensitive,
                                                result.line),
                                 "", <<>>)
                    [] result.kind = "bad" ->
                         Respond(r, 500, "unhandled", "", "BadTerm", <<>>)
                    [] OTHER ->
                         /\ pc' = [pc EXCEPT ![r] = "html_results"]
                         /\ UNCHANGED resp
       ELSE /\ pc' = [pc EXCEPT ![r] = "html_results"]
            /\ UNCHANGED <<calls, resp>>
    /\ UNCHANGED <<disk, req, loc>>

\* _search_html, lines 131-153: the normal search, rendered.
SearchHtmlResults(r) ==
    /\ pc[r] = "html_results"
    /\ LET c == ResultsCallHtml(ES_ALIASES[req[r].tree], loc[r])
           out == ResultsOf(c)
       IN  /\ calls' = [calls EXCEPT ![r] = Append(@, Logged(c))]
           /\ IF out.bad
              THEN Respond(r, BadTermStatus, "error.html", "", BadTermReason,
                           <<>>)
              ELSE Respond(r, 200, "search.html", "", "", out.page)
    /\ UNCHANGED <<disk, req, loc>>

\* browse, lines 170-173: serve the prerendered file unless the resolver or
\* send_from_directory raises NotFound.
Browse(r) ==
    /\ pc[r] = "browse"
    /\ LET folder == tree_folder(req[r].tree)
           fp == html_file_path(folder, req[r].path)
       IN  IF fp.raised
           THEN /\ pc' = [pc EXCEPT ![r] = "listing"]
                /\ UNCHANGED <<calls, resp>>
           ELSE /\ calls' = [calls EXCEPT ![r] =
                                Append(@, Call("send_from_directory", "", "",
                                               FALSE, 0, 0, fp.path,
                                               IF isfile(Join(folder, fp.path))
                                               THEN "sent" ELSE "NotFound"))]
                /\ IF isfile(Join(folder, fp.path))
                   THEN Respond(r, 200, "file", Join(folder, fp.path), "",
                                <<>>)
                   ELSE /\ pc' = [pc EXCEPT ![r] = "listing"]
                        /\ UNCHANGED resp
    /\ UNCHANGED <<disk, req, loc>>

\* A test that also takes a single entry for nothing.
ListingShort(files_and_folders) == Len(files_and_folders) < 2

\* browse, line 196: "if not files_and_folders".
ListingEmpty(files_and_folders) == files_and_folders = <<>>

\* browse, lines 174-236: the folder served out of the index.  The alias
\* lookup of an unregistered tree is a KeyError before any query is sent.
BrowseListing(r) ==
    /\ pc[r] = "listing"
    /\ IF req[r].tree \notin DOMAIN ES_ALIASES
       THEN /\ Respond(r, 500, "unhandled", "", "KeyError", <<>>)
            /\ UNCHANGED calls
       ELSE \E files_and_folders \in Listings :
               /\ calls' = [calls EXCEPT ![r] =
                               Append(@, Call("listing",
                                              ES_ALIASES[req[r].tree], "",
                                              FALSE, 0, 10000, req[r].path,
                                              IF files_and_folders = <<>>
                                              THEN "empty" ELSE "entries"))]
               /\ IF ListingEmpty(files_and_folders)
                  THEN Respond(r, 404, "NotFound", "", "", <<>>)
                  ELSE Respond(r, 200, "folder.html", "", "",
                               files_and_folders)
    /\ UNCHANGED <<disk, req, loc>>

\* A parallel controller that looks for the folder only.
ParallelFolderOnly(tree, path) ==
    IF html_file_path(tree_folder(tree), path).raised
    THEN WWW_ROOT \o "/" \o tree \o "/source/" \o path
    ELSE WWW_ROOT \o "/" \o tree \o "/source/"

\* parallel, lines 259-273: where the controller redirects to.
ParallelTarget(tree, path) ==
    LET folder == tree_folder(tree)
        fp == html_file_path(folder, path)
    IN  IF fp.raised \/ isfile(Join(folder, fp.path))
        THEN WWW_ROOT \o "/" \o tree \o "/source/" \o path
        ELSE WWW_ROOT \o "/" \o tree \o "/source/"

\* parallel.
Parallel(r) ==
    /\ pc[r] = "parallel"
    /\ Respond(r, 302, "redirect", ParallelTarget(req[r].tree, req[r].path),
               "", <<>>)
    /\ UNCHANGED <<disk, req, loc, calls>>

\* The response is sent and the request is over.
Finish(r) ==
    /\ pc[r] = "done"
    /\ pc' = [pc EXCEPT ![r] = "idle"]
    /\ req' = [req EXCEPT ![r] = NoReq]
    /\ loc' = [loc EXCEPT ![r] = NoLoc]
    /\ calls' = [calls EXCEPT ![r] = <<>>]
    /\ resp' = [resp EXCEPT ![r] = NoResp]
    /\ UNCHANGED disk

InitReqs(R) ==
    /\ pc = [r \in R |-> "idle"]
    /\ req = [r \in R |-> NoReq]
    /\ loc = [r \in R |-> NoLoc]
    /\ calls = [r \in R |-> <<>>]
    /\ resp = [r \in R |-> NoResp]

\* One request at a time, on any route.
Init == disk \in Disks /\ InitReqs({1})

Next ==
    \/ \E r \in {1} : ReceiveSearch(r)
    \/ \E r \in {1} : ReceiveBrowse(r)
    \/ \E r \in {1} : ReceiveParallel(r)
    \/ \E r \in {1} : Search(r)
    \/ \E r \in {1} : SearchJson(r)
    \/ \E r \in {1} : SearchHtmlDirect(r)
    \/ \E r \in {1} : SearchHtmlResults(r)
    \/ \E r \in {1} : Browse(r)
    \/ \E r \in {1} : BrowseListing(r)
    \/ \E r \in {1} : Parallel(r)
    \/ \E r \in {1} : Finish(r)

Spec == Init /\ [][Next]_vars

(***************************************************************************)
(* The negotiator over every Accept header of up to MaxAccept ranges.      *)
(***************************************************************************)
TheDisk == Layout({"code"}, TRUE, FALSE, TRUE)

\* A /search request of the registered tree with any Accept header.
ReceiveAnyAccept(r) ==
    /\ pc[r] = "idle"
    /\ \E a \in AllAccepts, rd \in RedirectRaw :
          req' = [req EXCEPT ![r] =
                     [NoReq EXCEPT !.route = "search", !.tree = "code",
                                   !.q = Str("foo"), !.redirect = rd,
                                   !.accept = a]]
    /\ pc' = [pc EXCEPT ![r] = "search"]
    /\ UNCHANGED <<disk, loc, calls, resp>>

InitNegotiate == disk = TheDisk /\ InitReqs({1})

NextNegotiate ==
    \/ \E r \in {1} : ReceiveAnyAccept(r)
    \/ \E r \in {1} : Search(r)
    \/ \E r \in {1} : SearchJson(r)
    \/ \E r \in {1} : SearchHtmlDirect(r)
    \/ \E r \in {1} : SearchHtmlResults(r)
    \/ \E r \in {1} : Finish(r)

SpecNegotiate == InitNegotiate /\ [][NextNegotiate]_vars

(***************************************************************************)
(* Two concurrent /search requests with the same raw q, offset, limit and  *)
(* case on the same tree: request 1 from a client that is answered with    *)
(* JSON, request 2 from one that is answered with HTML.                    *)
(***************************************************************************)
ReceivePair ==
    /\ pc[1] = "idle" /\ pc[2] = "idle"
    /\ \E t \in TreeNames, q \in QRaw, o \in OffsetRaw, l \in LimitRaw,
          c \in CaseRaw, rd1 \in RedirectRaw, rd2 \in RedirectRaw,
          a1 \in Accepts, a2 \in Accepts :
          /\ request_wants_json(a1) /\ ~request_wants_json(a2)
          /\ req' = [r \in {1, 2} |->
                        [route |-> "search", tree |-> t, path |-> "", q |-> q,
                         offset |-> o, limit |-> l, case |-> c,
                         redirect |-> IF r = 1 THEN rd1 ELSE rd2,
                         accept |-> IF r = 1 THEN a1 ELSE a2]]
    /\ pc' = [r \in {1, 2} |-> "search"]
    /\ UNCHANGED <<disk, loc, calls, resp>>

FinishPair ==
    /\ pc[1] = "done" /\ pc[2] = "done"
    /\ pc' = [r \in {1, 2} |-> "idle"]
    /\ req' = [r \in {1, 2} |-> NoReq]
    /\ loc' = [r \in {1, 2} |-> NoLoc]
    /\ calls' = [r \in {1, 2} |-> <<>>]
    /\ resp' = [r \in {1, 2} |-> NoResp]
    /\ UNCHANGED disk

InitPair == disk = TheDisk /\ InitReqs({1, 2})

NextPair ==
    \/ ReceivePair
    \/ \E r \in {1, 2} : Search(r)
    \/ \E r \in {1, 2} : SearchJson(r)
    \/ \E r \in {1, 2} : SearchHtmlDirect(r)
    \/ \E r \in {1, 2} : SearchHtmlResults(r)
    \/ FinishPair

SpecPair == InitPair /\ [][NextPair]_vars

(***************************************************************************)
(* Properties.                                                             *)
(***************************************************************************)
Done(r) == pc[r] = "done"
OnRoute(r, route) == req[r].route = route
KnownTree(r) == req[r].tree \in TREES
Dispatched(r) == OnRoute(r, "search") /\ pc[r] \in {"json", "html", "html_results", "done"}
Rendered(r) == OnRoute(r, "search") /\ KnownTree(r) /\ Dispatched(r) /\ ~loc[r].wants_json
Structured(r) == OnRoute(r, "search") /\ KnownTree(r) /\ Dispatched(r) /\ loc[r].wants_json
RedirectRequested(r) == req[r].redirect.present /\ req[r].redirect.text = "true"
Rejected(c) == c.op \in {"direct_result", "results"} /\ c.out = "bad"
SomeCall(r, P(_)) == \E i \in 1..Len(calls[r]) : P(calls[r][i])

\* C1: on a known tree, in either shape and whatever the redirect parameter
\* is, a /search request during which an index call (the direct-result lookup
\* or the results search) was rejected with BadTerm is answered with status
\* 400 and the failure's reason, never with an unhandled failure.
C1_BadTermIs400 ==
    \A r \in Reqs :
        (Done(r) /\ OnRoute(r, "search") /\ KnownTree(r) /\ SomeCall(r, Rejected))
            => (resp[r].status = 400 /\ resp[r].error = BadTermReason)

\* C2: on every route that takes a tree name, a request naming a tree that is
\* not in the registry ends in a 404 response without any index query.
C2_UnknownTreeIs404 ==
    \A r \in Reqs :
        (Done(r) /\ ~KnownTree(r))
            => (resp[r].status = 404 /\ IndexCalls(r) = <<>>)

\* The limit the claim C3 states: min(max(L, 0) if L parses as an integer
\* else 100, 1000).
ClaimedLimit(p) ==
    Min(IF PyInt(p).ok THEN Max(PyInt(p).val, 0) ELSE 100, 1000)

\* The limit of the amended claim: min(L if L parses as an integer >= 0 else
\* 100, 1000).
AmendedLimit(p) ==
    Min(IF PyInt(p).ok /\ PyInt(p).val >= 0 THEN PyInt(p).val ELSE 100, 1000)

Covers(range, mime) ==
    \/ range.type = "*" /\ range.subtype = "*"
    \/ range.type = mime.type /\ range.subtype \in {"*", mime.subtype}

\* The weight a client gives a type: the largest q of a range covering it.
Weight(mime, h) ==
    LET qs == {h[i].q : i \in {j \in 1..Len(h) : Covers(h[j], mime)}}
    IN  IF qs = {} THEN 0 ELSE CHOOSE q \in qs : \A q2 \in qs : q >= q2

\* The best match among the offered types: an acceptable one no other
\* offered type outweighs.
IsBest(mime, h) ==
    /\ Weight(mime, h) > 0
    /\ \A m2 \in {JSON_MIME, HTML_MIME} : Weight(mime, h) >= Weight(m2, h)

\* C4: the dispatcher fires the JSON searcher iff application/json is the best
\* match among application/json and text/html and its weight is strictly
\* greater than that of text/html; a client accepting only application/json
\* gets JSON, a wildcard-only client and a client weighing both types equally
\* get HTML.
C4_JsonIffStrictlyPreferred ==
    \A r \in Reqs :
        (OnRoute(r, "search") /\ pc[r] \in {"json", "html"}) =>
            LET h == req[r].accept
                json == pc[r] = "json"
            IN  /\ json <=> (IsBest(JSON_MIME, h)
                                /\ Weight(JSON_MIME, h) > Weight(HTML_MIME, h))
                /\ (h # <<>> /\ \A i \in 1..Len(h) :
                        h[i].type = "application" /\ h[i].subtype = "json"
                        /\ h[i].q > 0) => json
                /\ (\A i \in 1..Len(h) : h[i].type = "*") => ~json
                /\ (Weight(JSON_MIME, h) = Weight(HTML_MIME, h)) => ~json

\* The JSON searcher was chosen for a client that also accepts text/html,
\* with a smaller weight.
C4_Witness ==
    \E r \in Reqs :
        /\ pc[r] = "json"
        /\ Weight(HTML_MIME, req[r].accept) > 0
        /\ Weight(JSON_MIME, req[r].accept) > Weight(HTML_MIME, req[r].accept)

\* C5: during a /search request the direct-result lookup is invoked at most
\* once, only in the HTML shape and only if the redirect parameter is exactly
\* 'true'; never in the JSON shape.
C5_DirectLookupOnlyHtmlRedirect ==
    \A r \in Reqs :
        OnRoute(r, "search") =>
            /\ Len(CallsOf(r, "direct_result")) <= 1
            /\ Len(CallsOf(r, "direct_result")) = 1
                  => (Rendered(r) /\ RedirectRequested(r))
            /\ Structured(r) => CallsOf(r, "direct_result") = <<>>

\* The lookup was made for an HTML request with redirect=true and the request
\* ended.
C5_Witness ==
    \E r \in Reqs :
        /\ Done(r) /\ Rendered(r) /\ RedirectRequested(r)
        /\ Len(CallsOf(r, "direct_result")) = 1

\* What the disk holds for the path a request names.
PathIsDir(r) == isdir(Join(tree_folder(req[r].tree), req[r].path))
ArtifactIsFile(r) ==
    isfile(Join(tree_folder(req[r].tree), req[r].path \o ".html"))

\* C6: a browse request on a known tree ends with the prerendered file, a
\* rendered folder listing or NotFound; NotFound only when no file was served
\* and the index listing of the path came back empty; a path that is neither
\* an artifact nor a directory on disk goes to the index listing and is
\* rendered whenever the listing has an entry.
C6_BrowseOutcomes ==
    \A r \in Reqs :
        (Done(r) /\ OnRoute(r, "browse") /\ KnownTree(r)) =>
            /\ \/ resp[r].status = 200 /\ resp[r].kind = "file"
               \/ resp[r].status = 200 /\ resp[r].kind = "folder.html"
               \/ resp[r].status = 404 /\ resp[r].kind = "NotFound"
            /\ resp[r].kind = "NotFound" =>
                  /\ ~SomeCall(r, LAMBDA c : c.op = "send_from_directory" /\ c.out = "sent")
                  /\ SomeCall(r, LAMBDA c : c.op = "listing" /\ c.arg = req[r].path
                                             /\ c.out = "empty")
            /\ (~PathIsDir(r) /\ ~ArtifactIsFile(r)) =>
                  /\ SomeCall(r, LAMBDA c : c.op = "listing" /\ c.arg = req[r].path)
                  /\ SomeCall(r, LAMBDA c : c.op = "listing" /\ c.out = "entries")
                        => resp[r].kind = "folder.html"
            /\ SomeCall(r, LAMBDA c : c.op = "listing" /\ c.out = "entries")
                  => (resp[r].kind = "folder.html" /\ resp[r].results # <<>>)

\* A path that is nothing on disk was rendered as a folder from a single
\* index entry.
C6_Witness ==
    \E r \in Reqs :
        /\ Done(r) /\ OnRoute(r, "browse") /\ KnownTree(r)
        /\ ~PathIsDir(r) /\ ~ArtifactIsFile(r)
        /\ resp[r].kind = "folder.html" /\ Len(resp[r].results) = 1

\* C7: for a path that is a directory on disk the resolver signals Folder and
\* browse sends no file but goes on to the index listing; for a path that is
\* not a directory the resolver returns the path plus '.html', which browse
\* hands to send_from_directory whether or not that artifact exists.
C7_FileXorFolder ==
    \A r \in Reqs :
        (OnRoute(r, "browse") /\ pc[r] # "browse") =>
            IF PathIsDir(r)
            THEN /\ ~SomeCall(r, LAMBDA c : c.op = "send_from_directory")
                 /\ resp[r].kind # "file"
                 /\ pc[r] = "listing" \/ (Done(r) /\ resp[r].kind # "file")
            ELSE /\ calls[r] # <<>>
                 /\ calls[r][1].op = "send_from_directory"
                 /\ calls[r][1].arg = req[r].path \o ".html"
                 /\ (calls[r][1].out = "sent") <=> ArtifactIsFile(r)

\* A directory whose name plus '.html' is also a prerendered file went to the
\* listing.
C7_Witness ==
    \E r \in Reqs :
        /\ OnRoute(r, "browse") /\ pc[r] = "listing"
        /\ PathIsDir(r) /\ ArtifactIsFile(r)
        /\ calls[r] = <<>>

\* C8: a parallel request is always answered with a redirect; its target is
\* the same path in the tree iff the path is a directory on disk there or
\* <path>.html is a file there, else the tree's source root; no index query
\* is issued.
C8_ParallelRedirect ==
    \A r \in Reqs :
        (Done(r) /\ OnRoute(r, "parallel")) =>
            /\ resp[r].status = 302
            /\ resp[r].location =
                  IF PathIsDir(r) \/ ArtifactIsFile(r)
                  THEN WWW_ROOT \o "/" \o req[r].tree \o "/source/" \o req[r].path
                  ELSE WWW_ROOT \o "/" \o req[r].tree \o "/source/"
            /\ IndexCalls(r) = <<>>

\* A parallel request for a path that exists only as a prerendered file was
\* redirected to that path.
C8_Witness ==
    \E r \in Reqs :
        /\ Done(r) /\ OnRoute(r, "parallel")
        /\ ~PathIsDir(r) /\ ArtifactIsFile(r) /\ req[r].path # ""
        /\ resp[r].location =
              WWW_ROOT \o "/" \o req[r].tree \o "/source/" \o req[r].path

DirectFound(r) == SomeCall(r, LAMBDA c : c.op = "direct_result" /\ c.out = "pair")
DirectEmpty(r) == SomeCall(r, LAMBDA c : c.op = "direct_result" /\ c.out = "none")
CaseRequested(r) == req[r].case.present /\ req[r].case.text = "true"

ResultsArgs(r) ==
    [i \in 1..Len(CallsOf(r, "results")) |->
        LET c == CallsOf(r, "results")[i]
        IN  <<c.index, c.q, c.cs, c.offset, c.limit>>]

\* The paths and line numbers a response shows, whatever its encoding.
ShownJson(r) ==
    [i \in 1..Len(resp[r].results) |->
        <<resp[r].results[i].icon, resp[r].results[i].path,
          [j \in 1..Len(resp[r].results[i].lines) |->
              <<resp[r].results[i].lines[j].line_number,
                resp[r].results[i].lines[j].line>>]>>]

SameRawParams(a, b) ==
    /\ req[a].tree = req[b].tree /\ req[a].q = req[b].q
    /\ req[a].offset = req[b].offset /\ req[a].limit = req[b].limit
    /\ req[a].case = req[b].case

TwinsDone ==
    /\ Done(1) /\ Done(2) /\ SameRawParams(1, 2)
    /\ Structured(1) /\ Rendered(2)

\* C10 as stated: of two /search requests on the same tree with the same raw
\* q, offset, limit and case, one answered as JSON and one as HTML, both issue
\* the results search with the same (query text, case flag, offset, limit) and
\* shape the same ordered result sequence.
C10_BothIssueSamePage ==
    TwinsDone =>
        /\ Len(ResultsArgs(1)) = 1
        /\ ResultsArgs(2) = ResultsArgs(1)
        /\ resp[2].status = resp[1].status
        /\ resp[1].status = 200 => resp[2].results = ShownJson(1)

\* C10 amended: the JSON request issues the results search exactly once; the
\* HTML request issues it at most once, and does so unless its direct-result
\* lookup ended the request; whenever the HTML request issues it, it passes
\* the same (query text, case flag, offset, limit) as the JSON request and
\* both responses carry the same status and the same ordered results.
C10_SamePageWhenBothSearch ==
    TwinsDone =>
        /\ Len(ResultsArgs(1)) = 1
        /\ Len(ResultsArgs(2)) <= 1
        /\ ResultsArgs(2) = <<>>
              <=> SomeCall(2, LAMBDA c : c.op = "direct_result" /\ c.out # "none")
        /\ ResultsArgs(2) # <<>> =>
              /\ ResultsArgs(2) = ResultsArgs(1)
              /\ resp[2].status = resp[1].status
              /\ resp[1].status = 200 => resp[2].results = ShownJson(1)

\* Both requests searched with an offset and a limit that cut the page out of
\* the middle of the hits.
C10_Witness ==
    /\ TwinsDone
    /\ ResultsArgs(2) # <<>> /\ ResultsArgs(2) = ResultsArgs(1)
    /\ loc[1].offset = 1 /\ loc[1].limit = 2
    /\ resp[1].status = 200 /\ Len(resp[2].results) >= 1

====
